---- MODULE Spec2Model ----
(***************************************************************************)
(* Model of the BibTeX clean pipeline of static_site/app.js:               *)
(* parseBibtex -> normalizeEntry -> sort -> serializeEntry, and of the     *)
(* page of ui/app.js that has a server run the same pipeline.              *)
(* Text is a sequence of characters (one-character strings); indices are   *)
(* 1-based, so a JavaScript index i is the TLA+ position i + 1.            *)
(***************************************************************************)
EXTENDS Integers, Sequences, FiniteSets, TLC

VARIABLES inputBib, options, entries, normalized, outputBib,
          pages, pagesOut, title, titleOut, pc,
          written,        \* the fields as the source text of an entry writes them
          outputStatus,   \* outputStatus.textContent
          autoClean,      \* autoClean.checked
          debounceTimer,  \* "null", or "pending" while a setTimeout is armed
          requests        \* the payloads of the fetches not yet settled

vars == <<inputBib, options, entries, normalized, outputBib,
          pages, pagesOut, title, titleOut, pc,
          written, outputStatus, autoClean, debounceTimer, requests>>

\* what the page holds besides its text boxes
pageVars == <<outputStatus, autoClean, debounceTimer, requests>>

\* the page as the script leaves it when it has loaded: setStatus("Ready"),
\* debounceTimer = null, nothing fetched
PageLoaded ==
  /\ outputStatus = "Ready"
  /\ debounceTimer = "null"
  /\ requests = <<>>

(* ------------------------------ characters ----------------------------- *)

UpperSeq == <<"A","B","C","D","E","F","G","H","I","J","K","L","M","N","O","P","Q","R","S","T","U","V","W","X","Y","Z">>
LowerSeq == <<"a","b","c","d","e","f","g","h","i","j","k","l","m","n","o","p","q","r","s","t","u","v","w","x","y","z">>
DigitSeq == <<"0","1","2","3","4","5","6","7","8","9">>
UpperSet == {UpperSeq[i] : i \in 1..26}
LowerSet == {LowerSeq[i] : i \in 1..26}
DigitSet == {DigitSeq[i] : i \in 1..10}

\* Characters outside ASCII are named, one string per code unit.
EnDash == "en-dash"
EmDash == "em-dash"
RightQuote == "rsquo"

\* the class \s of the regular expressions and the set String.trim removes
Whitespace == {" ", "\n", "\t", "\r"}

IsSpace(c) == c \in Whitespace
IsAlpha(c) == c \in UpperSet \cup LowerSet
IsDigit(c) == c \in DigitSet
IsAlnum(c) == IsAlpha(c) \/ IsDigit(c)
\* the class \w of the regular expressions
IsWordChar(c) == IsAlnum(c) \/ c = "_"

ToLowerMap == [c \in UpperSet |-> LowerSeq[CHOOSE i \in 1..26 : UpperSeq[i] = c]]
ToUpperMap == [c \in LowerSet |-> UpperSeq[CHOOSE i \in 1..26 : LowerSeq[i] = c]]
LowerChar(c) == IF c \in UpperSet THEN ToLowerMap[c] ELSE c
UpperChar(c) == IF c \in LowerSet THEN ToUpperMap[c] ELSE c

toLowerCase(s) == [i \in 1..Len(s) |-> LowerChar(s[i])]

\* UTF-16 code unit of the ASCII characters the model uses
CodeUnit(c) ==
  IF c \in UpperSet THEN 64 + (CHOOSE i \in 1..26 : UpperSeq[i] = c)
  ELSE IF c \in LowerSet THEN 96 + (CHOOSE i \in 1..26 : LowerSeq[i] = c)
  ELSE IF c \in DigitSet THEN 47 + (CHOOSE i \in 1..10 : DigitSeq[i] = c)
  ELSE IF c = "_" THEN 95
  ELSE IF c = "-" THEN 45
  ELSE IF c = " " THEN 32
  ELSE 0

(* ---------------------------- string helpers --------------------------- *)

Range(seq) == {seq[n] : n \in 1..Len(seq)}

\* String.prototype.trim
RECURSIVE TrimLeft(_)
TrimLeft(s) == IF s # <<>> /\ IsSpace(Head(s)) THEN TrimLeft(Tail(s)) ELSE s
RECURSIVE TrimRight(_)
TrimRight(s) ==
  IF s # <<>> /\ IsSpace(s[Len(s)]) THEN TrimRight(SubSeq(s, 1, Len(s) - 1)) ELSE s
trim(s) == TrimRight(TrimLeft(s))

\* s.startsWith(p) at position i (1-based)
MatchAt(s, i, p) ==
  /\ i >= 1
  /\ i + Len(p) - 1 <= Len(s)
  /\ \A k \in 1..Len(p) : s[i + k - 1] = p[k]

includes(s, p) == \E i \in 1..(Len(s) + 1) : MatchAt(s, i, p)

\* text.indexOf(c, i): first position >= i holding c, 0 for -1
indexOf(text, c, i) ==
  LET hits == {p \in i..Len(text) : text[p] = c} IN
  IF hits = {} THEN 0 ELSE CHOOSE p \in hits : \A q \in hits : p <= q

\* Array.prototype.join
RECURSIVE join(_, _)
join(parts, sep) ==
  IF parts = <<>> THEN <<>>
  ELSE IF Len(parts) = 1 THEN parts[1]
  ELSE parts[1] \o sep \o join(Tail(parts), sep)

RECURSIVE Flatten(_)
Flatten(parts) == IF parts = <<>> THEN <<>> ELSE Head(parts) \o Flatten(Tail(parts))

\* Array.prototype.filter for a sequence and a set of accepted elements
RECURSIVE FilterSeq(_, _)
FilterSeq(seq, keep) ==
  IF seq = <<>> THEN <<>>
  ELSE IF Head(seq) \in keep THEN <<Head(seq)>> \o FilterSeq(Tail(seq), keep)
  ELSE FilterSeq(Tail(seq), keep)

(* ------------------------------- the parser ---------------------------- *)

\* A JavaScript object with string keys: a sequence of key/value records in
\* insertion order (the order Object.keys reports), keys unique.
FHas(fields, key) == \E n \in 1..Len(fields) : fields[n].k = key

\* fields[key]; an absent key reads as the empty string, which every use in
\* the source treats like undefined
FGet(fields, key) ==
  IF FHas(fields, key)
  THEN fields[CHOOSE n \in 1..Len(fields) : fields[n].k = key].v
  ELSE <<>>

\* fields[key] = value: an existing key keeps its place
FSet(fields, key, value) ==
  IF FHas(fields, key)
  THEN [n \in 1..Len(fields) |->
          IF fields[n].k = key THEN [k |-> key, v |-> value] ELSE fields[n]]
  ELSE Append(fields, [k |-> key, v |-> value])

\* A loop `for (i = lo; i <= hi; i += 1) st = Step(st, i)` is written as a
\* fold that runs the left half, then the right half from the state the left
\* half ends in: the same steps in the same order. The state of the left half
\* is bound as the element of a singleton set, which has it computed before the
\* right half starts.

\* inQuotes is left by a quote that no backslash precedes
QuoteCloses(input, i) == input[i] = "\"" /\ (i = 1 \/ input[i - 1] # "\\")

BraceDepth(depth, ch) ==
  IF ch = "{" THEN depth + 1
  ELSE IF ch = "}" THEN (IF depth > 0 THEN depth - 1 ELSE 0)
  ELSE depth

\* One iteration of the loop of splitTopLevel
SplitTopLevelStep(input, i, st) ==
  LET ch == input[i] IN
  IF st.inQuotes
  THEN [st EXCEPT !.current = Append(@, ch),
                  !.inQuotes = ~QuoteCloses(input, i)]
  ELSE IF ch = "\""
  THEN [st EXCEPT !.current = Append(@, ch), !.inQuotes = TRUE]
  ELSE LET d == BraceDepth(st.depth, ch) IN
       IF ch = "," /\ d = 0
       THEN [st EXCEPT !.depth = d, !.parts = Append(@, st.current),
                       !.current = <<>>]
       ELSE [st EXCEPT !.depth = d, !.current = Append(@, ch)]

RECURSIVE SplitTopLevelLoop(_, _, _, _)
SplitTopLevelLoop(input, lo, hi, st) ==
  IF lo > hi THEN st
  ELSE IF lo = hi THEN SplitTopLevelStep(input, lo, st)
  ELSE LET mid == (lo + hi) \div 2 IN
       CHOOSE r \in {SplitTopLevelLoop(input, mid + 1, hi, left) :
                       left \in {SplitTopLevelLoop(input, lo, mid, st)}} : TRUE

splitTopLevel(input) ==
  LET st == SplitTopLevelLoop(input, 1, Len(input),
              [current |-> <<>>, depth |-> 0, inQuotes |-> FALSE, parts |-> <<>>])
  IN IF trim(st.current) # <<>> THEN Append(st.parts, st.current) ELSE st.parts

\* One iteration of the loop of splitKeyValue; at is the position of the "="
\* the loop returns at, 0 while it has not returned
SplitKeyValueStep(segment, i, st) ==
  LET ch == segment[i] IN
  IF st.at # 0 THEN st
  ELSE IF st.inQuotes
  THEN [st EXCEPT !.inQuotes = ~QuoteCloses(segment, i)]
  ELSE IF ch = "\""
  THEN [st EXCEPT !.inQuotes = TRUE]
  ELSE LET d == BraceDepth(st.depth, ch) IN
       IF ch = "=" /\ d = 0 THEN [st EXCEPT !.depth = d, !.at = i]
       ELSE [st EXCEPT !.depth = d]

RECURSIVE SplitKeyValueLoop(_, _, _, _)
SplitKeyValueLoop(segment, lo, hi, st) ==
  IF lo > hi THEN st
  ELSE IF lo = hi THEN SplitKeyValueStep(segment, lo, st)
  ELSE LET mid == (lo + hi) \div 2 IN
       CHOOSE r \in {SplitKeyValueLoop(segment, mid + 1, hi, left) :
                       left \in {SplitKeyValueLoop(segment, lo, mid, st)}} : TRUE

\* [key, value], or found = FALSE for [null, null]
splitKeyValue(segment) ==
  LET i == SplitKeyValueLoop(segment, 1, Len(segment),
                              [depth |-> 0, inQuotes |-> FALSE, at |-> 0]).at
  IN
  IF i = 0 THEN [found |-> FALSE, key |-> <<>>, value |-> <<>>]
  ELSE [found |-> TRUE,
        key   |-> trim(SubSeq(segment, 1, i - 1)),
        value |-> trim(SubSeq(segment, i + 1, Len(segment)))]

stripEnclosing(value) ==
  IF value = <<>> THEN value
  ELSE LET out == trim(value) IN
    IF out # <<>> /\ ( (out[1] = "{" /\ out[Len(out)] = "}")
                    \/ (out[1] = "\"" /\ out[Len(out)] = "\"") )
    THEN trim(SubSeq(out, 2, Len(out) - 1))
    ELSE out

RECURSIVE SkipSpace(_, _)
SkipSpace(text, j) ==
  IF j <= Len(text) /\ IsSpace(text[j]) THEN SkipSpace(text, j + 1) ELSE j

RECURSIVE SkipAlpha(_, _)
SkipAlpha(text, j) ==
  IF j <= Len(text) /\ IsAlpha(text[j]) THEN SkipAlpha(text, j + 1) ELSE j

\* One iteration of the loop matching the opening delimiter; the loop runs
\* while depth > 0 and j is the position it stands at
MatchCloseStep(text, i, open, close, st) ==
  IF st.depth > 0
  THEN LET ch == text[i]
           d1 == IF ch = open THEN st.depth + 1 ELSE st.depth
           d2 == IF ch = close THEN d1 - 1 ELSE d1
       IN [depth |-> d2, j |-> i + 1]
  ELSE st

RECURSIVE MatchCloseLoop(_, _, _, _, _, _)
MatchCloseLoop(text, lo, hi, open, close, st) ==
  IF lo > hi THEN st
  ELSE IF lo = hi THEN MatchCloseStep(text, lo, open, close, st)
  ELSE LET mid == (lo + hi) \div 2 IN
       CHOOSE r \in {MatchCloseLoop(text, mid + 1, hi, open, close, left) :
                       left \in {MatchCloseLoop(text, lo, mid, open, close, st)}} :
         TRUE

\* The position j after the loop
MatchClose(text, j, depth, open, close) ==
  MatchCloseLoop(text, j, Len(text), open, close, [depth |-> depth, j |-> j]).j

\* text.slice(contentStart, contentEnd) with contentEnd = j - 1, in 1-based
\* positions: from contentStart up to the position before j - 1
EntryContent(text, contentStart, j) == SubSeq(text, contentStart, j - 2)

\* The outer loop of parseBibtex up to `content`: the entries' type (as
\* written), the position of the opening delimiter and the body
RECURSIVE ScanEntries(_, _, _)
ScanEntries(text, i, found) ==
  IF i > Len(text) THEN found
  ELSE LET at == indexOf(text, "@", i) IN
    IF at = 0 THEN found
    ELSE LET j1 == SkipSpace(text, at + 1)
             j2 == SkipAlpha(text, j1)
             j3 == SkipSpace(text, j2)
         IN IF j3 > Len(text) \/ text[j3] \notin {"{", "("}
            THEN ScanEntries(text, at + 1, found)
            ELSE LET open == text[j3]
                     close == IF open = "{" THEN "}" ELSE ")"
                     j == MatchClose(text, j3 + 1, 1, open, close)
                 IN ScanEntries(text, j,
                      Append(found, [type    |-> SubSeq(text, j1, j2 - 1),
                                     open    |-> j3,
                                     content |-> EntryContent(text, j3 + 1, j)]))

\* parts.forEach in parseBibtex: fields and order of the segments after the id
RECURSIVE ParseFields(_, _, _)
ParseFields(parts, fields, order) ==
  IF parts = <<>> THEN [fields |-> fields, order |-> order]
  ELSE LET kv == splitKeyValue(Head(parts)) IN
    IF ~kv.found \/ kv.key = <<>>
    THEN ParseFields(Tail(parts), fields, order)
    ELSE ParseFields(Tail(parts),
                     FSet(fields, toLowerCase(kv.key), stripEnclosing(kv.value)),
                     Append(order, toLowerCase(kv.key)))

Unknown == <<"u","n","k","n","o","w","n">>

EntryOf(raw) ==
  LET parts == splitTopLevel(raw.content)
      id == IF parts = <<>> \/ parts[1] = <<>> THEN Unknown ELSE trim(parts[1])
      fo == ParseFields(IF parts = <<>> THEN <<>> ELSE Tail(parts), <<>>, <<>>)
  IN [type |-> toLowerCase(raw.type), id |-> id,
      fields |-> fo.fields, order |-> fo.order]

parseBibtex(text) ==
  LET raw == ScanEntries(text, 1, <<>>) IN
  [n \in 1..Len(raw) |-> EntryOf(raw[n])]

(* ------------------------------ constants ------------------------------ *)

F_author == <<"a","u","t","h","o","r">>
F_doi == <<"d","o","i">>
F_journal == <<"j","o","u","r","n","a","l">>
F_note == <<"n","o","t","e">>
F_number == <<"n","u","m","b","e","r">>
F_pages == <<"p","a","g","e","s">>
F_title == <<"t","i","t","l","e">>
F_volume == <<"v","o","l","u","m","e">>
F_year == <<"y","e","a","r">>

fieldOptions ==
  <<F_author,
    F_title,
    <<"s","h","o","r","t","t","i","t","l","e">>,
    F_journal,
    <<"b","o","o","k","t","i","t","l","e">>,
    F_year,
    <<"m","o","n","t","h">>,
    <<"d","a","y">>,
    F_volume,
    F_number,
    F_pages,
    F_doi,
    <<"i","s","b","n">>,
    <<"i","s","s","n">>,
    <<"u","r","l">>,
    <<"u","r","l","d","a","t","e">>,
    <<"p","u","b","l","i","s","h","e","r">>,
    <<"a","d","d","r","e","s","s">>,
    <<"s","e","r","i","e","s">>,
    <<"l","o","c","a","t","i","o","n">>,
    F_note,
    <<"c","o","p","y","r","i","g","h","t">>,
    <<"c","a","t","e","g","o","r","y">>,
    <<"m","e","t","a","d","a","t","a">>>>

defaultKeep == <<F_author, F_title, F_journal, F_year, F_volume, F_number, F_pages, F_doi>>

PROTECT_TITLE_TOKENS ==
  <<<<"P","R","O","T","A","C">>,
    <<"P","R","O","T","A","C","s">>,
    <<"B","R","D","4">>,
    <<"B","E","T">>,
    <<"C","R","B","N">>,
    <<"N","r","f","2">>,
    <<"K","e","a","p","1">>,
    <<"D","N","A">>,
    <<"R","N","A">>,
    <<"A","T","P">>,
    <<"X","-","r","a","y">>,
    <<"S","A","R">>>>

REQUIRED_FIELDS == <<F_author, F_title, F_journal, F_year, F_volume, F_pages>>

SMALL_WORDS ==
  {<<"a">>,
   <<"a","n">>,
   <<"a","n","d">>,
   <<"a","s">>,
   <<"a","t">>,
   <<"b","u","t">>,
   <<"b","y">>,
   <<"f","o","r">>,
   <<"i","n">>,
   <<"n","o","r">>,
   <<"o","f">>,
   <<"o","n">>,
   <<"o","r">>,
   <<"p","e","r">>,
   <<"t","h","e">>,
   <<"t","o">>,
   <<"v","s">>,
   <<"v","i","a">>,
   <<"w","i","t","h">>,
   <<"w","i","t","h","o","u","t">>,
   <<"o","v","e","r">>,
   <<"i","n","t","o">>,
   <<"f","r","o","m">>}

Article == <<"a","r","t","i","c","l","e">>
Untitled == <<"u","n","t","i","t","l","e","d">>
NoDate == <<"n","d">>
AndSep == <<" ","a","n","d"," ">>
MissingOpen == <<"[","M","I","S","S","I","N","G",":"," ">>
CommaSpace == <<","," ">>
DashDash == <<"-","-">>

(* ------------------------------ normalizePages ------------------------- *)

Dashes == {EnDash, EmDash, "-"}

\* Mutant: /\s*--/g, the whitespace after `--` stays
RECURSIVE ReplaceDashDashBefore(_, _)
ReplaceDashDashBefore(s, i) ==
  IF i > Len(s) THEN <<>>
  ELSE LET k == SkipSpace(s, i) IN
    IF MatchAt(s, k, DashDash)
    THEN DashDash \o ReplaceDashDashBefore(s, k + 2)
    ELSE <<s[i]>> \o ReplaceDashDashBefore(s, i + 1)

\* trimmed.replace(/\s*--\s*/g, "--"): leftmost matches, left to right
RECURSIVE ReplaceDashDash(_, _)
ReplaceDashDash(s, i) ==
  IF i > Len(s) THEN <<>>
  ELSE LET k == SkipSpace(s, i) IN
    IF MatchAt(s, k, DashDash)
    THEN DashDash \o ReplaceDashDash(s, SkipSpace(s, k + 2))
    ELSE <<s[i]>> \o ReplaceDashDash(s, i + 1)

\* trimmed.split(/\s*(?:en-dash|em-dash|-)\s*/g)
RECURSIVE SplitDash(_, _, _, _)
SplitDash(s, i, current, parts) ==
  IF i > Len(s) THEN Append(parts, current)
  ELSE LET k == SkipSpace(s, i) IN
    IF k <= Len(s) /\ s[k] \in Dashes
    THEN SplitDash(s, SkipSpace(s, k + 1), <<>>, Append(parts, current))
    ELSE SplitDash(s, i + 1, Append(current, s[i]), parts)

\* /^\d+$/.test(s)
AllDigits(s) == s # <<>> /\ \A i \in 1..Len(s) : IsDigit(s[i])

normalizePages(p) ==
  IF p = <<>> THEN p
  ELSE LET trimmed == trim(p) IN
    IF includes(trimmed, DashDash) THEN ReplaceDashDash(trimmed, 1)
    ELSE LET parts == SplitDash(trimmed, 1, <<>>, <<>>) IN
      IF Len(parts) = 2 /\ AllDigits(parts[1]) /\ AllDigits(parts[2])
      THEN parts[1] \o DashDash \o parts[2]
      \* replacing every separator by "--" is joining the split parts with it
      ELSE join(parts, DashDash)

(* ------------------------------ title casing --------------------------- *)

RECURSIVE SplitByBracesFrom(_, _, _, _, _)
SplitByBracesFrom(text, i, current, depth, parts) ==
  IF i > Len(text)
  THEN IF current # <<>>
       THEN Append(parts, [text |-> current, braced |-> depth > 0])
       ELSE parts
  ELSE LET ch == text[i] IN
    IF ch = "{"
    THEN IF depth = 0 /\ current # <<>>
         THEN SplitByBracesFrom(text, i + 1, <<ch>>, depth + 1,
                                Append(parts, [text |-> current, braced |-> FALSE]))
         ELSE SplitByBracesFrom(text, i + 1, Append(current, ch), depth + 1, parts)
    ELSE IF ch = "}"
    THEN LET d == IF depth > 0 THEN depth - 1 ELSE 0 IN
         IF d = 0
         THEN SplitByBracesFrom(text, i + 1, <<>>, d,
                Append(parts, [text |-> Append(current, ch), braced |-> TRUE]))
         ELSE SplitByBracesFrom(text, i + 1, Append(current, ch), d, parts)
    ELSE SplitByBracesFrom(text, i + 1, Append(current, ch), depth, parts)

splitByBraces(text) == SplitByBracesFrom(text, 1, <<>>, 0, <<>>)

\* Mutant: the pattern without its lookahead
NoLookahead(s, i) == TRUE

\* (?!\w) at position i
NoWordCharAt(s, i) == i > Len(s) \/ ~IsWordChar(s[i])

\* out.replace(/(^|[^\w])(token)(?!\w)/g, prefix{token}) from position i on
RECURSIVE ProtectFrom(_, _, _)
ProtectFrom(s, i, token) ==
  IF i > Len(s) THEN <<>>
  ELSE IF i = 1 /\ MatchAt(s, 1, token) /\ NoWordCharAt(s, 1 + Len(token))
  THEN <<"{">> \o token \o <<"}">> \o ProtectFrom(s, 1 + Len(token), token)
  ELSE IF ~IsWordChar(s[i]) /\ MatchAt(s, i + 1, token)
          /\ NoWordCharAt(s, i + 1 + Len(token))
  THEN <<s[i], "{">> \o token \o <<"}">>
         \o ProtectFrom(s, i + 1 + Len(token), token)
  ELSE <<s[i]>> \o ProtectFrom(s, i + 1, token)

ProtectToken(out, token) == ProtectFrom(out, 1, token)

\* [...new Set(tokens)].sort((a, b) => b.length - a.length): a stable sort
RECURSIVE InsertByLength(_, _)
InsertByLength(sorted, token) ==
  IF sorted = <<>> THEN <<token>>
  ELSE IF Len(Head(sorted)) >= Len(token)
  THEN <<Head(sorted)>> \o InsertByLength(Tail(sorted), token)
  ELSE <<token>> \o sorted

RECURSIVE SortByLength(_, _)
SortByLength(tokens, sorted) ==
  IF tokens = <<>> THEN sorted
  ELSE IF \E n \in 1..Len(sorted) : sorted[n] = Head(tokens)
  THEN SortByLength(Tail(tokens), sorted)
  ELSE SortByLength(Tail(tokens), InsertByLength(sorted, Head(tokens)))

RECURSIVE ProtectAll(_, _)
ProtectAll(out, sorted) ==
  IF sorted = <<>> THEN out
  ELSE ProtectAll(ProtectToken(out, Head(sorted)), Tail(sorted))

protectTokensInTitle(t, tokens) ==
  IF t = <<>> THEN t
  ELSE LET parts == splitByBraces(t)
           sorted == SortByLength(tokens, <<>>)
       IN Flatten([n \in 1..Len(parts) |->
                     IF parts[n].braced THEN parts[n].text
                     ELSE ProtectAll(parts[n].text, sorted)])

ForcingPunctuation == {":", ".", ";", "!", "?"}

RECURSIVE SkipSpaceBack(_, _)
SkipSpaceBack(text, i) ==
  IF i >= 1 /\ IsSpace(text[i]) THEN SkipSpaceBack(text, i - 1) ELSE i

\* Mutant: punctuation before a word forces nothing
shouldCapitalizeUnforced(word, index, text) ==
  IF index = 1 THEN TRUE
  ELSE LET i == SkipSpaceBack(text, index - 1) IN
    IF i < 1 THEN TRUE
    ELSE toLowerCase(word) \notin SMALL_WORDS

\* index is the 1-based position of the word in text
shouldCapitalize(word, index, text) ==
  IF index = 1 THEN TRUE
  ELSE LET i == SkipSpaceBack(text, index - 1) IN
    IF i < 1 THEN TRUE
    ELSE IF text[i] \in ForcingPunctuation THEN TRUE
    ELSE toLowerCase(word) \notin SMALL_WORDS

\* \b at position i: between text[i - 1] and text[i]
WordBoundary(text, i) ==
  (i > 1 /\ IsWordChar(text[i - 1])) # (i <= Len(text) /\ IsWordChar(text[i]))

\* the class [A-Za-z0-9'rsquo\-]
IsTitleWordChar(c) == IsAlnum(c) \/ c \in {"'", RightQuote, "-"}

RECURSIVE SkipTitleWord(_, _)
SkipTitleWord(text, j) ==
  IF j <= Len(text) /\ IsTitleWordChar(text[j]) THEN SkipTitleWord(text, j + 1) ELSE j

\* End of the match of /\b([A-Za-z][A-Za-z0-9'rsquo\-]*)\b/ starting at i (the
\* position after its last character), 0 when there is no match at i: the
\* longest run that ends at a word boundary
WordMatchEnd(text, i) ==
  IF ~(WordBoundary(text, i) /\ i <= Len(text) /\ IsAlpha(text[i])) THEN 0
  ELSE LET k == SkipTitleWord(text, i + 1)
           ends == {e \in (i + 1)..k : WordBoundary(text, e)}
       IN IF ends = {} THEN 0 ELSE CHOOSE e \in ends : \A f \in ends : f <= e

CapitalizeWord(word) ==
  LET lower == toLowerCase(word) IN
  <<UpperChar(lower[1])>> \o Tail(lower)

RECURSIVE TitlecaseFrom(_, _)
TitlecaseFrom(text, i) ==
  IF i > Len(text) THEN <<>>
  ELSE LET e == WordMatchEnd(text, i) IN
    IF e = 0 THEN <<text[i]>> \o TitlecaseFrom(text, i + 1)
    ELSE LET word == SubSeq(text, i, e - 1) IN
      (IF shouldCapitalize(word, i, text)
       THEN CapitalizeWord(word) ELSE toLowerCase(word))
      \o TitlecaseFrom(text, e)

titlecaseSegment(text) == TitlecaseFrom(text, 1)

smartTitlecase(t) ==
  IF t = <<>> THEN t
  ELSE LET protectedTitle == protectTokensInTitle(t, PROTECT_TITLE_TOKENS)
           parts == splitByBraces(protectedTitle)
       IN Flatten([n \in 1..Len(parts) |->
                     IF parts[n].braced THEN parts[n].text
                     ELSE titlecaseSegment(parts[n].text)])

(* --------------------------- journal, key, entry ----------------------- *)

\* overrides is a key/value object, <<>> for null
abbreviateJournal(journal, overrides) ==
  IF journal = <<>> THEN journal
  ELSE IF FGet(overrides, journal) # <<>> THEN FGet(overrides, journal)
  ELSE journal

\* author.split(" and ")[0]
FirstAuthor(author) ==
  LET cuts == {i \in 1..Len(author) : MatchAt(author, i, AndSep)} IN
  IF cuts = {} THEN author
  ELSE SubSeq(author, 1, (CHOOSE i \in cuts : \A j \in cuts : i <= j) - 1)

\* first.split(",")[0]
BeforeComma(first) ==
  LET c == indexOf(first, ",", 1) IN
  IF c = 0 THEN first ELSE SubSeq(first, 1, c - 1)

\* first.split(/\s+/).slice(-1)[0] for a trimmed, non-empty first
RECURSIVE LastToken(_, _)
LastToken(first, i) ==
  IF i >= 1 /\ ~IsSpace(first[i]) THEN LastToken(first, i - 1)
  ELSE SubSeq(first, i + 1, Len(first))

\* title.match(/[A-Za-z0-9]+/g) || []
RECURSIVE AlnumRuns(_, _, _, _)
AlnumRuns(s, i, current, runs) ==
  IF i > Len(s)
  THEN IF current # <<>> THEN Append(runs, current) ELSE runs
  ELSE IF IsAlnum(s[i]) THEN AlnumRuns(s, i + 1, Append(current, s[i]), runs)
  ELSE AlnumRuns(s, i + 1, <<>>,
                 IF current # <<>> THEN Append(runs, current) ELSE runs)

RECURSIVE KeepChars(_, _)
KeepChars(s, keep) ==
  IF s = <<>> THEN <<>>
  ELSE IF Head(s) \in keep THEN <<Head(s)>> \o KeepChars(Tail(s), keep)
  ELSE KeepChars(Tail(s), keep)

ShortTitleWords == 4

makeKey(fields) ==
  LET author == FGet(fields, F_author)
      year == FGet(fields, F_year)
      t == FGet(fields, F_title)
      first == trim(FirstAuthor(author))
      last == IF includes(first, <<",">>) THEN trim(BeforeComma(first))
              ELSE IF first # <<>> THEN trim(LastToken(first, Len(first)))
              ELSE Unknown
      runs == AlnumRuns(t, 1, <<>>, <<>>)
      words == SubSeq(runs, 1, IF Len(runs) < ShortTitleWords THEN Len(runs)
                               ELSE ShortTitleWords)
      joined == Flatten([n \in 1..Len(words) |->
                           <<UpperChar(words[n][1])>> \o Tail(words[n])])
      short == IF joined = <<>> THEN Untitled ELSE joined
      slug == KeepChars(toLowerCase(last), UpperSet \cup LowerSet \cup DigitSet)
      lastSlug == IF slug = <<>> THEN Unknown ELSE slug
      digits == KeepChars(year, DigitSet)
      yearSlug == IF digits = <<>> THEN NoDate ELSE digits
  IN lastSlug \o yearSlug \o <<"_">> \o short

\* keepOrder.forEach in normalizeEntry
RECURSIVE FilterFields(_, _, _)
FilterFields(entryFields, keepOrder, outFields) ==
  IF keepOrder = <<>> THEN outFields
  ELSE LET field == Head(keepOrder)
           value == FGet(entryFields, field)
       IN FilterFields(entryFields, Tail(keepOrder),
            IF value # <<>> /\ trim(value) # <<>>
            THEN FSet(outFields, field, trim(value))
            ELSE outFields)

\* Normalisation of the kept title, journal and pages
TransformFields(outFields, opts) ==
  LET f1 == IF FGet(outFields, F_title) # <<>> /\ opts.titlecase
            THEN FSet(outFields, F_title, smartTitlecase(FGet(outFields, F_title)))
            ELSE outFields
      f2 == IF FGet(f1, F_journal) # <<>>
            THEN FSet(f1, F_journal,
                      abbreviateJournal(FGet(f1, F_journal), opts.journalAbbrev))
            ELSE f1
  IN IF FGet(f2, F_pages) # <<>>
     THEN FSet(f2, F_pages, normalizePages(FGet(f2, F_pages)))
     ELSE f2

\* Mutant: the last required field is not looked at
MissingFieldsButLast(outFields) ==
  FilterSeq(SubSeq(REQUIRED_FIELDS, 1, Len(REQUIRED_FIELDS) - 1),
            {f \in Range(REQUIRED_FIELDS) : FGet(outFields, f) = <<>>})

\* REQUIRED_FIELDS.filter((field) => !outFields[field])
MissingFields(outFields) ==
  FilterSeq(REQUIRED_FIELDS,
            {REQUIRED_FIELDS[n] : n \in {m \in 1..Len(REQUIRED_FIELDS) :
                                           FGet(outFields, REQUIRED_FIELDS[m]) = <<>>}})

AnnotateMissing(outFields) ==
  LET missing == MissingFields(outFields) IN
  IF missing = <<>> THEN outFields
  ELSE LET note == IF FGet(outFields, F_note) # <<>>
                   THEN Append(FGet(outFields, F_note), " ") ELSE <<>>
       IN FSet(outFields, F_note,
               trim(note \o MissingOpen \o join(missing, CommaSpace) \o <<"]">>))

\* Mutant: the key is made from the entry as parsed
KeySourceRaw(entry, outFields) == entry.fields

\* The fields the regenerated key is made from
KeySource(entry, outFields) == outFields

\* Mutant: the test of the entry type is left out
IsArticleAlways(entry) == TRUE

IsArticle(entry) == entry.type = Article

normalizeEntry(entry, keepOrder, opts) ==
  IF ~IsArticle(entry)
  THEN [type |-> entry.type, id |-> entry.id, fields |-> entry.fields,
        order |-> entry.order, outputOrder |-> entry.order]
  ELSE LET outFields ==
             AnnotateMissing(TransformFields(
               FilterFields(entry.fields, keepOrder, <<>>), opts))
       IN [type |-> Article,
           id |-> IF opts.regenKeys THEN makeKey(KeySource(entry, outFields))
                  ELSE entry.id,
           fields |-> outFields,
           outputOrder |-> keepOrder]

(* ------------------------------ the serializer ------------------------- *)

FieldLine(field, value) ==
  <<" ", " ">> \o field \o <<" ", "=", " ", "{">> \o value \o <<"}", ",">>

\* entry.outputOrder.forEach: the lines and the set `used`
RECURSIVE OrderedLines(_, _, _, _)
OrderedLines(fields, outputOrder, lines, used) ==
  IF outputOrder = <<>> THEN [lines |-> lines, used |-> used]
  ELSE LET field == Head(outputOrder)
           value == FGet(fields, field)
       IN IF value # <<>>
          THEN OrderedLines(fields, Tail(outputOrder),
                            Append(lines, FieldLine(field, value)),
                            used \cup {field})
          ELSE OrderedLines(fields, Tail(outputOrder), lines, used)

\* Object.keys(entry.fields).forEach
RECURSIVE RemainingLines(_, _, _)
RemainingLines(fields, n, used) ==
  IF n > Len(fields) THEN <<>>
  ELSE (IF fields[n].k \notin used
        THEN <<FieldLine(fields[n].k, fields[n].v)>> ELSE <<>>)
       \o RemainingLines(fields, n + 1, used)

serializeEntry(entry) ==
  LET first == <<"@">> \o entry.type \o <<"{">> \o entry.id \o <<",">>
      ol == OrderedLines(entry.fields, entry.outputOrder, <<>>, {})
  IN join(<<first>> \o ol.lines \o RemainingLines(entry.fields, 1, ol.used)
            \o << <<"}">> >>,
          <<"\n">>)

(* ------------------------------- cleanBibtex --------------------------- *)

\* String.prototype.localeCompare is provided by the engine; this is the
\* default (root) collation for the letters and digits ids are made of: a
\* case-insensitive comparison decides first, digits before letters, and
\* between strings that differ only in case the lower-case letter comes first.
PrimaryWeight(c) ==
  IF IsAlpha(c) THEN 200 + CodeUnit(LowerChar(c))
  ELSE IF IsDigit(c) THEN 100 + CodeUnit(c)
  ELSE CodeUnit(c) % 100

CaseWeight(c) == IF c \in UpperSet THEN 1 ELSE 0

\* -1, 0 or 1 for sequences of integers compared lexicographically
RECURSIVE CompareWeights(_, _)
CompareWeights(a, b) ==
  IF a = <<>> /\ b = <<>> THEN 0
  ELSE IF a = <<>> THEN -1
  ELSE IF b = <<>> THEN 1
  ELSE IF Head(a) < Head(b) THEN -1
  ELSE IF Head(a) > Head(b) THEN 1
  ELSE CompareWeights(Tail(a), Tail(b))

localeCompare(a, b) ==
  LET p == CompareWeights([i \in 1..Len(a) |-> PrimaryWeight(a[i])],
                          [i \in 1..Len(b) |-> PrimaryWeight(b[i])])
  IN IF p # 0 THEN p
     ELSE CompareWeights([i \in 1..Len(a) |-> CaseWeight(a[i])],
                         [i \in 1..Len(b) |-> CaseWeight(b[i])])

\* normalized.sort((a, b) => a.id.localeCompare(b.id)): a stable sort
RECURSIVE InsertSorted(_, _)
InsertSorted(sorted, entry) ==
  IF sorted = <<>> THEN <<entry>>
  ELSE IF localeCompare(Head(sorted).id, entry.id) <= 0
  THEN <<Head(sorted)>> \o InsertSorted(Tail(sorted), entry)
  ELSE <<entry>> \o sorted

RECURSIVE SortById(_, _)
SortById(list, sorted) ==
  IF list = <<>> THEN sorted
  ELSE SortById(Tail(list), InsertSorted(sorted, Head(list)))

NormalizeAll(parsed, opts) ==
  [n \in 1..Len(parsed) |-> normalizeEntry(parsed[n], opts.keepFields, opts)]

SerializeAll(sorted) ==
  join([n \in 1..Len(sorted) |-> serializeEntry(sorted[n])], <<"\n", "\n">>)

cleanBibtex(text, opts) ==
  SerializeAll(SortById(NormalizeAll(parseBibtex(text), opts), <<>>))

(* ------------------------- inputs of the pipeline ---------------------- *)

\* an article with every required field:
\*   @article{b,author={Li, A},title={a STUDY},journal={J},year={1},volume={2},pages={3 - 4}}
ArticleComplete ==
  <<"@","a","r","t","i","c","l","e","{","b",",","a","u","t","h","o","r","=",
    "{","L","i",","," ","A","}",",","t","i","t","l","e","=","{","a"," ","S",
    "T","U","D","Y","}",",","j","o","u","r","n","a","l","=","{","J","}",",",
    "y","e","a","r","=","{","1","}",",","v","o","l","u","m","e","=","{","2",
    "}",",","p","a","g","e","s","=","{","3"," ","-"," ","4","}","}">>

\* an article lacking required fields, with a note and a blank volume:
\*   @Article{B,title={the dna of DNA},note={n},volume={ }}
ArticleSparse ==
  <<"@","A","r","t","i","c","l","e","{","B",",","t","i","t","l","e","=","{",
    "t","h","e"," ","d","n","a"," ","o","f"," ","D","N","A","}",",","n","o",
    "t","e","=","{","n","}",",","v","o","l","u","m","e","=","{"," ","}","}">>

\* a non-article entry with a repeated field and an empty value:
\*   @book{a,title={x of DNA},pages={1-2},pages={}}
BookEntry ==
  <<"@","b","o","o","k","{","a",",","t","i","t","l","e","=","{","x"," ","o",
    "f"," ","D","N","A","}",",","p","a","g","e","s","=","{","1","-","2","}",
    ",","p","a","g","e","s","=","{","}","}">>

\* a non-article entry in parentheses with a quoted value:
\*   @misc(B, Note = "3 - 4")\n
MiscEntry ==
  <<"@","m","i","s","c","(","B",","," ","N","o","t","e"," ","="," ","\"","3",
    " ","-"," ","4","\"",")","\n">>
\* an article in parentheses with quoted and bare values:
\*   @article(c2, Title = "x-ray of {DNA}", year = 2020, pages = "7 -- 9")
ArticleQuoted ==
  <<"@","a","r","t","i","c","l","e","(","c","2",","," ","T","i","t","l","e",
    " ","="," ","\"","x","-","r","a","y"," ","o","f"," ","{","D","N","A","}",
    "\"",","," ","y","e","a","r"," ","="," ","2","0","2","0",","," ","p","a",
    "g","e","s"," ","="," ","\"","7"," ","-","-"," ","9","\"",")">>

EntrySnippets ==
  {ArticleComplete, ArticleSparse, ArticleQuoted, BookEntry, MiscEntry}

\* Number of snippets pasted into the input box
MaxEntries == 2

RECURSIVE TextsOf(_)
TextsOf(n) ==
  IF n = 0 THEN {<<>>}
  ELSE LET shorter == TextsOf(n - 1) IN
       shorter \cup {t \o s : t \in shorter, s \in EntrySnippets}

\* parseKeepFields: the checked boxes in the order of fieldOptions
parseKeepFields(checked) == FilterSeq(fieldOptions, checked)

DefaultChecked == {defaultKeep[n] : n \in 1..Len(defaultKeep)}

\* Check boxes the user may have changed from their default
Unchecked == {F_title}
NewlyChecked == {F_note}

KeepChoices ==
  {parseKeepFields((DefaultChecked \ off) \cup on) :
     off \in SUBSET Unchecked, on \in SUBSET NewlyChecked}

\* parseJournalAbbrev: null, or the map of the lines `J = Jx`
JournalChoices == {<<>>, << [k |-> <<"J">>, v |-> <<"J", "x">>] >>}

OptionChoices ==
  [keepFields : KeepChoices, titlecase : BOOLEAN, regenKeys : BOOLEAN,
   journalAbbrev : JournalChoices]

(* ------------------------ the clean button: runClean ------------------- *)

Init ==
  /\ inputBib \in TextsOf(MaxEntries)
  /\ options \in OptionChoices
  /\ entries = <<>>
  /\ normalized = <<>>
  /\ outputBib = <<>>
  /\ pages = <<>>
  /\ pagesOut = <<>>
  /\ title = <<>>
  /\ titleOut = <<>>
  /\ pc = "ready"
  /\ written = <<>>
  /\ autoClean = TRUE
  /\ PageLoaded

\* runClean of the static site: entries and normalized are the locals of
\* cleanBibtex, normalized as it is before the in-place sort
RunClean ==
  /\ pc = "ready"
  /\ pc' = "cleaned"
  /\ IF trim(inputBib) = <<>>
     THEN /\ outputBib' = <<>>
          /\ outputStatus' = "Ready"
          /\ UNCHANGED <<entries, normalized>>
     ELSE /\ entries' = parseBibtex(inputBib)
          /\ normalized' = NormalizeAll(entries', options)
          /\ outputBib' = SerializeAll(SortById(normalized', <<>>))
          /\ outputStatus' = "Cleaned"
  /\ UNCHANGED <<inputBib, options, pages, pagesOut, title, titleOut,
                 written, autoClean, debounceTimer, requests>>

Next == RunClean

Spec == Init /\ [][Next]_vars

(* ------------------------- claims about cleanBibtex --------------------- *)

\* C1: with regenKeys off, cleaning the cleaned output again with the same
\* options returns it character for character (clean is idempotent).
C1_Idempotent ==
  (pc = "cleaned" /\ ~options.regenKeys)
    => cleanBibtex(outputBib, options) = outputBib

\* a <= b in the order of the code units of the characters
RECURSIVE CodeUnitLeq(_, _)
CodeUnitLeq(a, b) ==
  IF a = <<>> THEN TRUE
  ELSE IF b = <<>> THEN FALSE
  ELSE IF CodeUnit(Head(a)) # CodeUnit(Head(b))
  THEN CodeUnit(Head(a)) < CodeUnit(Head(b))
  ELSE CodeUnitLeq(Tail(a), Tail(b))

\* C2: the entries of the output are in ascending code-unit order of their
\* ids: of two adjacent entries the first id is <= the second.
C2_CodeUnitOrder ==
  pc = "cleaned" =>
    LET out == parseBibtex(outputBib) IN
    \A n \in 1..(Len(out) - 1) : CodeUnitLeq(out[n].id, out[n + 1].id)

\* C3: normalizeEntry returns an entry that is not an article with the same
\* type, id and fields, and with its original field order as outputOrder,
\* whatever the options are.
C3_NonArticleUntouched ==
  pc = "cleaned" =>
    \A n \in 1..Len(entries) :
      entries[n].type # Article =>
        /\ normalized[n].type = entries[n].type
        /\ normalized[n].id = entries[n].id
        /\ normalized[n].fields = entries[n].fields
        /\ normalized[n].outputOrder = entries[n].order

\* A non-article entry with pages and a title that normalization would have
\* rewritten, cleaned with title casing and key regeneration on
C3_Witness ==
  /\ pc = "cleaned"
  /\ options.titlecase /\ options.regenKeys
  /\ \E n \in 1..Len(entries) :
       /\ entries[n].type # Article
       /\ FGet(entries[n].fields, F_title) # <<>>
       /\ smartTitlecase(FGet(entries[n].fields, F_title))
            # FGet(entries[n].fields, F_title)
       /\ F_pages \in Range(entries[n].order)
       /\ normalized[n].fields = entries[n].fields

\* The required fields that are not among the fields kept by the filter: not
\* in keepFields, or absent or blank in the source
C5_Missing(entry, keepOrder) ==
  SelectSeq(REQUIRED_FIELDS,
            LAMBDA f : ~(f \in Range(keepOrder) /\ trim(FGet(entry.fields, f)) # <<>>))

C5_KeptNote(entry, keepOrder) ==
  IF F_note \in Range(keepOrder) THEN trim(FGet(entry.fields, F_note)) ELSE <<>>

\* C5: for an article the note of the normalized entry is the kept note
\* followed by [MISSING: ...] listing exactly the required fields that are not
\* kept, in the order of REQUIRED_FIELDS; with none missing the note is the kept
\* note alone.
C5_RequiredFieldCheck ==
  pc = "cleaned" =>
    \A n \in 1..Len(entries) :
      entries[n].type = Article =>
        LET missing == C5_Missing(entries[n], options.keepFields)
            kept == C5_KeptNote(entries[n], options.keepFields)
        IN FGet(normalized[n].fields, F_note) =
             IF missing = <<>> THEN kept
             ELSE trim(kept \o <<" ">> \o MissingOpen
                         \o join(missing, CommaSpace) \o <<"]">>)

\* An article that lost a required field to the keepFields selection only, and
\* had a note to keep
C5_Witness ==
  /\ pc = "cleaned"
  /\ \E n \in 1..Len(entries) :
       /\ entries[n].type = Article
       /\ FGet(entries[n].fields, F_title) # <<>>
       /\ F_title \notin Range(options.keepFields)
       /\ C5_KeptNote(entries[n], options.keepFields) # <<>>
       /\ MatchAt(FGet(normalized[n].fields, F_note), 1,
                  C5_KeptNote(entries[n], options.keepFields) \o <<" ">> \o MissingOpen)
       /\ includes(FGet(normalized[n].fields, F_note), CommaSpace \o F_title)

\* An article with nothing missing
C5_WitnessComplete ==
  /\ pc = "cleaned"
  /\ \E n \in 1..Len(entries) :
       /\ entries[n].type = Article
       /\ C5_Missing(entries[n], options.keepFields) = <<>>

\* The positions where a maximal run of letters and digits starts
C8_Starts(t) ==
  {i \in 1..Len(t) : IsAlnum(t[i]) /\ (i = 1 \/ ~IsAlnum(t[i - 1]))}

C8_RunAt(t, i) ==
  SubSeq(t, i, CHOOSE e \in i..Len(t) :
                 /\ \A k \in i..e : IsAlnum(t[k])
                 /\ (e = Len(t) \/ ~IsAlnum(t[e + 1])))

\* The first (up to) 4 tokens, each with its first letter upper-cased, joined
C8_ShortTitle(t) ==
  LET starts == C8_Starts(t)
      count == IF Cardinality(starts) < 4 THEN Cardinality(starts) ELSE 4
      StartOf(r) == CHOOSE i \in starts : Cardinality({j \in starts : j <= i}) = r
      token(r) == C8_RunAt(t, StartOf(r))
      short == Flatten([r \in 1..count |->
                          <<UpperChar(token(r)[1])>> \o Tail(token(r))])
  IN IF short = <<>> THEN Untitled ELSE short

\* The part of a regenerated id after `<lastNameSlug><yearDigits>_`
C8_AfterUnderscore(id) == SubSeq(id, indexOf(id, "_", 1) + 1, Len(id))

\* C8 as stated: the ShortTitle of a regenerated id is built from the title as
\* parsed from the source.
C8_KeyFromRawTitle ==
  (pc = "cleaned" /\ options.regenKeys) =>
    \A n \in 1..Len(entries) :
      entries[n].type = Article =>
        C8_AfterUnderscore(normalized[n].id)
          = C8_ShortTitle(FGet(entries[n].fields, F_title))

\* C8 amended: the ShortTitle of a regenerated id is built from the title field
\* of the normalized entry (the kept title, title-cased and with protected
\* tokens when titlecase is on; `untitled` when no title is kept).
C8_KeyFromOutputTitle ==
  (pc = "cleaned" /\ options.regenKeys) =>
    \A n \in 1..Len(entries) :
      entries[n].type = Article =>
        /\ indexOf(normalized[n].id, "_", 1) > 1
        /\ C8_AfterUnderscore(normalized[n].id)
             = C8_ShortTitle(FGet(normalized[n].fields, F_title))

\* An article whose regenerated key shows the title casing
C8_Witness ==
  /\ pc = "cleaned" /\ options.regenKeys /\ options.titlecase
  /\ \E n \in 1..Len(entries) :
       /\ entries[n].type = Article
       /\ FGet(normalized[n].fields, F_title) # <<>>
       /\ C8_ShortTitle(FGet(normalized[n].fields, F_title))
            # C8_ShortTitle(FGet(entries[n].fields, F_title))
       /\ C8_AfterUnderscore(normalized[n].id)
            = C8_ShortTitle(FGet(normalized[n].fields, F_title))

(* ---------------------- parseBibtex on arbitrary text ------------------- *)

\* The characters the parser's outer loop tells apart
ParseAlphabet == {"@", "B", "{", "}", ",", " "}

MaxTextLen == 5

Strings(alphabet, maxLen) ==
  UNION {[1..n -> alphabet] : n \in 0..maxLen}

InitParse ==
  /\ inputBib \in Strings(ParseAlphabet, MaxTextLen)
  /\ options = [keepFields |-> defaultKeep, titlecase |-> TRUE,
                regenKeys |-> FALSE, journalAbbrev |-> <<>>]
  /\ entries = <<>>
  /\ normalized = <<>>
  /\ outputBib = <<>>
  /\ pages = <<>>
  /\ pagesOut = <<>>
  /\ title = <<>>
  /\ titleOut = <<>>
  /\ pc = "ready"
  /\ written = <<>>
  /\ autoClean = TRUE
  /\ PageLoaded

ParseBibtex ==
  /\ pc = "ready"
  /\ pc' = "parsed"
  /\ entries' = parseBibtex(inputBib)
  /\ UNCHANGED <<inputBib, options, normalized, outputBib,
                 pages, pagesOut, title, titleOut>>
  /\ UNCHANGED <<written, pageVars>>

NextParse == ParseBibtex

SpecParse == InitParse /\ [][NextParse]_vars

\* C4: every entry parseBibtex returns has a non-empty type of lower-case
\* letters; a candidate `@` without a type is not an entry.
C4_TypeNonEmpty ==
  pc = "parsed" =>
    \A n \in 1..Len(entries) :
      /\ entries[n].type # <<>>
      /\ \A i \in 1..Len(entries[n].type) : entries[n].type[i] \in LowerSet

\* Nesting depth of the delimiter opened at position open, after position p
C9_DepthAfter(text, open, p) ==
  LET opener == text[open]
      closer == IF opener = "{" THEN "}" ELSE ")"
  IN 1 + Cardinality({q \in (open + 1)..p : text[q] = opener})
       - Cardinality({q \in (open + 1)..p : text[q] = closer})

C9_Unterminated(text, open) ==
  \A p \in (open + 1)..Len(text) : C9_DepthAfter(text, open, p) > 0

\* C9: the body of an entry whose delimiter is never closed is the whole text
\* after the opening delimiter, to the last character of the input, and it is
\* the last entry.
C9_UnterminatedBody ==
  pc = "parsed" =>
    LET raw == ScanEntries(inputBib, 1, <<>>) IN
    \A n \in 1..Len(raw) :
      C9_Unterminated(inputBib, raw[n].open) =>
        /\ raw[n].content = SubSeq(inputBib, raw[n].open + 1, Len(inputBib))
        /\ n = Len(raw)

(* ------------------------ normalizePages on its own -------------------- *)

PagesAlphabet == {"1", "2", " ", "-"}

MaxPagesLen == 6

InitPages ==
  /\ pages \in Strings(PagesAlphabet, MaxPagesLen)
  /\ inputBib = <<>>
  /\ options = [keepFields |-> defaultKeep, titlecase |-> TRUE,
                regenKeys |-> FALSE, journalAbbrev |-> <<>>]
  /\ entries = <<>>
  /\ normalized = <<>>
  /\ outputBib = <<>>
  /\ pagesOut = <<>>
  /\ title = <<>>
  /\ titleOut = <<>>
  /\ pc = "ready"
  /\ written = <<>>
  /\ autoClean = TRUE
  /\ PageLoaded

NormalizePages ==
  /\ pc = "ready"
  /\ pc' = "normalized"
  /\ pagesOut' = normalizePages(pages)
  /\ UNCHANGED <<inputBib, options, entries, normalized, outputBib,
                 pages, title, titleOut>>
  /\ UNCHANGED <<written, pageVars>>

NextPages == NormalizePages

SpecPages == InitPages /\ [][NextPages]_vars

\* The whole value has the form digits, whitespace, one hyphen, whitespace,
\* digits, the hyphen at position h
C6_IsRange(p, h) ==
  /\ p[h] = "-"
  /\ \E a \in 1..(h - 1), b \in (h + 1)..Len(p) :
       /\ \A i \in 1..a : IsDigit(p[i])
       /\ \A i \in (a + 1)..(h - 1) : IsSpace(p[i])
       /\ \A i \in (h + 1)..(b - 1) : IsSpace(p[i])
       /\ \A i \in b..Len(p) : IsDigit(p[i])

C6_Digits(p) == KeepChars(p, DigitSet)

C6_RangeCase ==
  \A h \in 1..Len(pages) :
    C6_IsRange(pages, h) =>
      pagesOut = C6_Digits(SubSeq(pages, 1, h)) \o DashDash
                   \o C6_Digits(SubSeq(pages, h, Len(pages)))

\* The whitespace run holding position i touches a `--` that starts at one of
\* the positions in starts
C6_Touches(s, i, starts) ==
  /\ IsSpace(s[i])
  /\ \E a \in 1..i, b \in i..Len(s) :
       /\ \A k \in a..b : IsSpace(s[k])
       /\ (b + 1 \in starts \/ a - 2 \in starts)

C6_Without(s, starts) ==
  Flatten([i \in 1..Len(s) |->
             IF C6_Touches(s, i, starts) THEN <<>> ELSE <<s[i]>>])

\* Every place where `--` occurs
C6_AllPairs(s) == {i \in 1..Len(s) : MatchAt(s, i, DashDash)}

\* The pairs of hyphens counted from the left of each run of hyphens
C6_LeftPairs(s) ==
  {i \in C6_AllPairs(s) :
     \E a \in 1..i : /\ \A k \in a..i : s[k] = "-"
                     /\ (a = 1 \/ s[a - 1] # "-")
                     /\ (i - a) % 2 = 0}

\* C6 as stated: a range of digits around one hyphen becomes first--second,
\* and a value containing `--` comes back with only the whitespace around each
\* `--` removed.
C6_PagesAsStated ==
  pc = "normalized" =>
    /\ C6_RangeCase
    /\ includes(pages, DashDash) => pagesOut = C6_Without(pages, C6_AllPairs(pages))

\* C6 amended: a range of digits around one hyphen becomes first--second; a
\* value containing `--` comes back trimmed, with the whitespace removed
\* around each `--` of the hyphen pairs counted from the left of a run of
\* hyphens (of `---` only the first two are a `--`).
C6_Pages ==
  pc = "normalized" =>
    /\ C6_RangeCase
    /\ includes(pages, DashDash) =>
         pagesOut = C6_Without(trim(pages), C6_LeftPairs(trim(pages)))

\* A range with blanks around its hyphen was rewritten, and so was a value
\* with blanks around `--`
C6_Witness ==
  /\ pc = "normalized"
  /\ \/ pages = <<"1", "2", " ", "-", " ", "2">> /\ pagesOut = <<"1", "2", "-", "-", "2">>
     \/ pages = <<"1", " ", "-", "-", " ", "2">> /\ pagesOut = <<"1", "-", "-", "2">>

(* ------------------------ smartTitlecase on its own -------------------- *)

\* Pieces a title is put together from: protected tokens, a brace group, single
\* braces, a word character, a hyphen and a blank
ProtectPieces ==
  {<<"P","R","O","T","A","C">>, <<"P","R","O","T","A","C","s">>, <<"D","N","A">>, <<"{","D","N","A","}">>,
   <<"{">>, <<"}">>, <<"x">>, <<"-">>, <<" ">>}

\* Number of pieces in a title
MaxTitlePieces == 3

RECURSIVE TitlesOf(_, _)
TitlesOf(pieces, n) ==
  IF n = 0 THEN {<<>>}
  ELSE LET shorter == TitlesOf(pieces, n - 1) IN
       shorter \cup {t \o w : t \in shorter, w \in pieces}

InitTitle(titles) ==
  /\ title \in titles
  /\ inputBib = <<>>
  /\ options = [keepFields |-> defaultKeep, titlecase |-> TRUE,
                regenKeys |-> FALSE, journalAbbrev |-> <<>>]
  /\ entries = <<>>
  /\ normalized = <<>>
  /\ outputBib = <<>>
  /\ pages = <<>>
  /\ pagesOut = <<>>
  /\ titleOut = <<>>
  /\ pc = "ready"
  /\ written = <<>>
  /\ autoClean = TRUE
  /\ PageLoaded

InitProtect == InitTitle(TitlesOf(ProtectPieces, MaxTitlePieces))

SmartTitlecase ==
  /\ pc = "ready"
  /\ pc' = "cased"
  /\ titleOut' = smartTitlecase(title)
  /\ UNCHANGED <<inputBib, options, entries, normalized, outputBib,
                 pages, pagesOut, title>>
  /\ UNCHANGED <<written, pageVars>>

NextProtect == SmartTitlecase

SpecProtect == InitProtect /\ [][NextProtect]_vars

C7_Count(s, sub) == Cardinality({i \in 1..Len(s) : MatchAt(s, i, sub)})

C7_Wrapped(t) == <<"{">> \o t \o <<"}">>

\* The places where token t stands in p with no word character next to it
C7_Standalone(p, t) ==
  {i \in 1..Len(p) :
     /\ MatchAt(p, i, t)
     /\ (i = 1 \/ ~IsWordChar(p[i - 1]))
     /\ (i + Len(t) > Len(p) \/ ~IsWordChar(p[i + Len(t)]))}

\* The standalone occurrences of the tokens in ts in the unbraced spans of t0,
\* the spans being those splitByBraces tells apart
C7_Occurrences(t0, ts) ==
  LET parts == splitByBraces(t0) IN
  {x \in (1..Len(parts)) \X ts \X (1..Len(t0)) :
     /\ ~parts[x[1]].braced
     /\ x[3] \in C7_Standalone(parts[x[1]].text, x[2])}

C7_BracedTexts(t0) ==
  LET parts == splitByBraces(t0) IN
  SelectSeq([n \in 1..Len(parts) |-> parts[n]], LAMBDA part : part.braced)

RECURSIVE C7_IsSubsequence(_, _)
C7_IsSubsequence(a, b) ==
  IF a = <<>> THEN TRUE
  ELSE IF b = <<>> THEN FALSE
  ELSE IF Head(a) = Head(b) THEN C7_IsSubsequence(Tail(a), Tail(b))
  ELSE C7_IsSubsequence(a, Tail(b))

SegmentPieces ==
  {<<"t","h","e">>, <<"O","F">>, <<"c","A","T">>, <<"3","D">>,
   <<" ">>, <<":">>, <<"-">>, <<"(">>, <<"_">>}

InitSegment == InitTitle(TitlesOf(SegmentPieces, MaxTitlePieces))

TitlecaseSegment ==
  /\ pc = "ready"
  /\ pc' = "cased"
  /\ titleOut' = titlecaseSegment(title)
  /\ UNCHANGED <<inputBib, options, entries, normalized, outputBib,
                 pages, pagesOut, title>>
  /\ UNCHANGED <<written, pageVars>>

NextSegment == TitlecaseSegment

SpecSegment == InitSegment /\ [][NextSegment]_vars

\* The text before position i with its whitespace left out
C10_Before(t, i) == KeepChars(SubSeq(t, 1, i - 1), {t[k] : k \in 1..Len(t)} \ Whitespace)

\* Nothing but whitespace precedes position i, or the nearest character that
\* is no whitespace is one of : . ; ! ?
C10_Forced(t, i) ==
  LET before == C10_Before(t, i) IN
  before = <<>> \/ before[Len(before)] \in {":", ".", ";", "!", "?"}

\* What the rule makes of the word at positions i..e-1, given whether its
\* place forces a capital
C10_Cased(word, forced) ==
  LET lower == toLowerCase(word) IN
  IF lower \in SMALL_WORDS /\ ~forced THEN lower
  ELSE <<UpperChar(lower[1])>> \o Tail(lower)

\* The maximal runs of letters and digits, as <<first position, position after>>
C10_AlnumWords(t) ==
  {w \in (1..Len(t)) \X (2..(Len(t) + 1)) :
     /\ w[1] < w[2]
     /\ \A k \in w[1]..(w[2] - 1) : IsAlnum(t[k])
     /\ (w[1] = 1 \/ ~IsAlnum(t[w[1] - 1]))
     /\ (w[2] > Len(t) \/ ~IsAlnum(t[w[2]]))}

\* C10 as stated: every alphanumeric word, also one that starts with a digit,
\* is lower-cased and capitalized, unless it is a small word that is neither
\* the first word of the span nor preceded by one of : . ; ! ?
C10_AsStated ==
  pc = "cased" =>
    /\ Len(titleOut) = Len(title)
    /\ \A w \in C10_AlnumWords(title) :
         SubSeq(titleOut, w[1], w[2] - 1)
           = C10_Cased(SubSeq(title, w[1], w[2] - 1),
                       \/ C10_Forced(title, w[1])
                       \/ \A v \in C10_AlnumWords(title) : v[1] >= w[1])

\* Positions i..e-1 hold a run of letters, digits, apostrophes and hyphens that
\* starts with a letter, with a word boundary before and after
C10_IsWord(t, i, e) ==
  /\ i < e
  /\ IsAlpha(t[i])
  /\ (i = 1 \/ ~IsWordChar(t[i - 1]))
  /\ \A k \in i..(e - 1) : IsAlnum(t[k]) \/ t[k] \in {"'", RightQuote, "-"}
  /\ IsWordChar(t[e - 1]) # (e <= Len(t) /\ IsWordChar(t[e]))

\* The words taken from left to right, each as long as possible
RECURSIVE C10_Words(_, _)
C10_Words(t, i) ==
  IF i > Len(t) THEN {}
  ELSE LET ends == {e \in (i + 1)..(Len(t) + 1) : C10_IsWord(t, i, e)} IN
    IF ends = {} THEN C10_Words(t, i + 1)
    ELSE LET e == CHOOSE x \in ends : \A y \in ends : y <= x IN
         {<<i, e>>} \cup C10_Words(t, e)

\* C10 amended: every word (a run of letters, digits, apostrophes and hyphens
\* that starts with a letter at a word boundary and runs to the last word
\* boundary it can) is lower-cased and capitalized, unless it is a small word
\* preceded in the span by a character that is no whitespace, the nearest of
\* which is not one of : . ; ! ?; all other text, also a word that starts with a
\* digit, is left as it is.
C10_Titlecase ==
  pc = "cased" =>
    LET words == C10_Words(title, 1) IN
    /\ Len(titleOut) = Len(title)
    /\ \A w \in words :
         SubSeq(titleOut, w[1], w[2] - 1)
           = C10_Cased(SubSeq(title, w[1], w[2] - 1), C10_Forced(title, w[1]))
    /\ \A k \in 1..Len(title) :
         (\A w \in words : k < w[1] \/ k >= w[2]) => titleOut[k] = title[k]

\* A word was capitalized and the small word after it lower-cased
C10_Witness ==
  /\ pc = "cased"
  /\ title = <<"c","A","T"," ","O","F">>
  /\ titleOut = <<"C","a","t"," ","o","f">>

(* ------------- the fields of one entry: parse, then serialize ---------- *)

\* The characters a value is made of between its braces
ValueAlphabet == {",", "=", "\"", "{", "}"}

MaxValueLen == 2

\* every prefix closes no more braces than it opened, and the whole closes all
BalancedBraces(value) ==
  LET OpenBraces(p) ==
        Cardinality({q \in 1..p : value[q] = "{"})
          - Cardinality({q \in 1..p : value[q] = "}"})
  IN /\ \A p \in 1..Len(value) : OpenBraces(p) >= 0
     /\ OpenBraces(Len(value)) = 0

FieldValues ==
  {v \in Strings(ValueAlphabet, MaxValueLen) :
     /\ BalancedBraces(v)
     /\ Cardinality({p \in 1..Len(v) : v[p] = "\""}) <= 1}

FieldKeys == {<<"k">>, <<"T">>}

\* an entry body writes one field, or two
WrittenFields ==
  LET WrittenPairs == [k : FieldKeys, v : FieldValues]
  IN {<<p>> : p \in WrittenPairs} \cup {<<p, q>> : p, q \in WrittenPairs}

\*   @book{a,k={...},T={...}}
RECURSIVE FieldsText(_)
FieldsText(ps) ==
  IF ps = <<>> THEN <<>>
  ELSE <<",">> \o ps[1].k \o <<"=", "{">> \o ps[1].v \o <<"}">>
         \o FieldsText(Tail(ps))

EntryText(ps) ==
  <<"@", "b", "o", "o", "k", "{", "a">> \o FieldsText(ps) \o <<"}">>

InitFields ==
  /\ written \in WrittenFields
  /\ inputBib = EntryText(written)
  /\ options = [keepFields |-> defaultKeep, titlecase |-> TRUE,
                regenKeys |-> FALSE, journalAbbrev |-> <<>>]
  /\ entries = <<>>
  /\ normalized = <<>>
  /\ outputBib = <<>>
  /\ pages = <<>>
  /\ pagesOut = <<>>
  /\ title = <<>>
  /\ titleOut = <<>>
  /\ pc = "ready"
  /\ autoClean = TRUE
  /\ PageLoaded

NextFields == RunClean

SpecFields == InitFields /\ [][NextFields]_vars

C11_DistinctKeys(ps) ==
  \A m, n \in 1..Len(ps) :
    m # n => toLowerCase(ps[m].k) # toLowerCase(ps[n].k)

\* C11: an entry body written as `key = {value}` pairs with distinct keys and
\* balanced braces in every value parses to one entry whose fields are those
\* pairs, in order, each with its key in lower case and its value as written
\* between the braces, whatever the value holds: commas, `=` signs, a single
\* double quote.
C11_FieldPerPair ==
  (pc = "cleaned" /\ C11_DistinctKeys(written)) =>
    /\ Len(entries) = 1
    /\ entries[1].fields =
         [n \in 1..Len(written) |->
            [k |-> toLowerCase(written[n].k), v |-> written[n].v]]

\* the start of the line serializeEntry writes for a field
C12_LineStart(field) == <<"\n", " ", " ">> \o field \o <<" ", "=", " ", "{">>

C12_LinesOf(text, field) ==
  Cardinality({p \in 1..Len(text) : MatchAt(text, p, C12_LineStart(field))})

\* C12: the text serializeEntry writes for an entry that parseBibtex and
\* normalizeEntry produced has at most one line per field name, and no line
\* `name = {}` of an empty value; the entry may be a non-article whose source
\* repeats a field name or leaves a value empty.
C12_EachFieldOnce ==
  pc = "cleaned" =>
    \A n \in 1..Len(normalized) :
      LET text == serializeEntry(normalized[n]) IN
      \A m \in 1..Len(normalized[n].fields) :
        LET field == normalized[n].fields[m].k IN
        /\ C12_LinesOf(text, field) <= 1
        /\ ~includes(text, C12_LineStart(field) \o <<"}", ",", "\n">>)

(* ------------------ the page of ui/app.js, served by /api/clean -------- *)
\* The page posts its input and options to the server and writes the answer
\* into the output box when it arrives. The handlers of Copy, Download, Load
\* example and the options toggle write neither text box from the state kept
\* here and start no clean of their own state; they are left out.

\* what the user may have in the input box
PageInputs == {<<>>, BookEntry, ArticleSparse}

\* fetches the page may have open at once
MaxInFlight == 2

\* POST /api/clean: the server runs the same pipeline on the payload it is
\* sent; `data.output || ""` is its text.
ServerClean(payload) == cleanBibtex(payload.input, payload.options)

\* what no handler of the page touches
pipelineVars ==
  <<entries, normalized, pages, pagesOut, title, titleOut, pc, written>>

\* runClean up to its await: the payload is read from the page now
runClean ==
  LET payload == [input |-> inputBib', options |-> options'] IN
  IF trim(payload.input) = <<>>
  THEN /\ outputBib' = <<>>
       /\ outputStatus' = "Ready"
       /\ UNCHANGED requests
  ELSE /\ Len(requests) < MaxInFlight
       /\ outputStatus' = "Cleaning..."
       /\ requests' = Append(requests, payload)
       /\ UNCHANGED outputBib

scheduleClean ==
  IF ~autoClean THEN UNCHANGED debounceTimer
  ELSE debounceTimer' = "pending"

InitPage ==
  /\ inputBib = <<>>
  /\ options = [keepFields |-> defaultKeep, titlecase |-> TRUE,
                regenKeys |-> FALSE, journalAbbrev |-> <<>>]
  /\ entries = <<>>
  /\ normalized = <<>>
  /\ outputBib = <<>>
  /\ pages = <<>>
  /\ pagesOut = <<>>
  /\ title = <<>>
  /\ titleOut = <<>>
  /\ pc = "page"
  /\ written = <<>>
  /\ autoClean \in BOOLEAN
  /\ PageLoaded

\* the user edits the input box
InputEvent ==
  /\ \E text \in PageInputs \ {inputBib} : inputBib' = text
  /\ scheduleClean
  /\ UNCHANGED <<options, outputBib, outputStatus, autoClean, requests>>
  /\ UNCHANGED pipelineVars

\* the user flips the title-case box
OptionChange ==
  /\ options' = [options EXCEPT !.titlecase = ~@]
  /\ scheduleClean
  /\ UNCHANGED <<inputBib, outputBib, outputStatus, autoClean, requests>>
  /\ UNCHANGED pipelineVars

\* the 350 ms have passed
TimerFires ==
  /\ debounceTimer = "pending"
  /\ debounceTimer' = "null"
  /\ UNCHANGED <<inputBib, options, autoClean>>
  /\ UNCHANGED pipelineVars
  /\ runClean

CleanClick ==
  /\ UNCHANGED <<inputBib, options, autoClean, debounceTimer>>
  /\ UNCHANGED pipelineVars
  /\ runClean

\* a fetch settles, in any order: runClean after its await
FetchCompletes ==
  /\ \E n \in 1..Len(requests) :
       /\ requests' = SubSeq(requests, 1, n - 1)
                        \o SubSeq(requests, n + 1, Len(requests))
       /\ \E ok \in BOOLEAN :
            IF ok
            THEN /\ outputBib' = ServerClean(requests[n])
                 /\ outputStatus' = "Cleaned"
            ELSE /\ outputBib' = <<>>
                 /\ outputStatus' = "Failed to clean bibliography."
  /\ UNCHANGED <<inputBib, options, autoClean, debounceTimer>>
  /\ UNCHANGED pipelineVars

ClearClick ==
  /\ inputBib' = <<>>
  /\ outputBib' = <<>>
  /\ outputStatus' = "Ready"
  /\ UNCHANGED <<options, autoClean, debounceTimer, requests>>
  /\ UNCHANGED pipelineVars

AutoCleanChange ==
  /\ autoClean' = ~autoClean
  /\ UNCHANGED <<inputBib, options, debounceTimer>>
  /\ UNCHANGED pipelineVars
  /\ IF autoClean' THEN runClean
     ELSE UNCHANGED <<outputBib, outputStatus, requests>>

NextPage ==
  \/ InputEvent
  \/ OptionChange
  \/ TimerFires
  \/ CleanClick
  \/ FetchCompletes
  \/ ClearClick
  \/ AutoCleanChange

SpecPage == InitPage /\ [][NextPage]_vars

\* what the output box should hold for the input and options now on the page
C13_Current ==
  IF trim(inputBib) = <<>> THEN <<>>
  ELSE ServerClean([input |-> inputBib, options |-> options])

\* C13: with auto-clean on, once no fetch is open and no timer is armed, and
\* the last fetch to settle did not fail, the output box holds the result for
\* the input and options now on the page: empty for an empty input, the
\* server's answer to exactly this payload otherwise.
C13_NoStaleOutput ==
  (/\ autoClean
   /\ requests = <<>>
   /\ debounceTimer = "null"
   /\ outputStatus \in {"Ready", "Cleaned"}) =>
    outputBib = C13_Current

====
